---- MODULE Spec2Model ----
(***************************************************************************)
(* Model of src/main.rs: the node graph (Snarl<DijkstraNode>), the viewer's *)
(* rectangle cache and path, geometric cost recomputation                   *)
(* (DijkstraViewer::final_node_rect), the path search                       *)
(* (DijkstraApp::run_dijkstra) and the update cycle (DijkstraApp::update).  *)
(*                                                                          *)
(* A graph is three values:                                                 *)
(*   kind  : node id -> "None" | "Start" | "Distance" | "Finish"            *)
(*           ("None" is a vacant slot of the node slab)                     *)
(*   costs : node id -> the HashMap<NodeId, i32> the node carries           *)
(*           (a function whose DOMAIN is the key set; empty for Start)      *)
(*   wires : set of <<from, to>>, the wire from output pin 0 of `from` to   *)
(*           input pin 0 of `to` (inputs() and outputs() are at most 1, so  *)
(*           pin 0 is the only pin the editor offers)                       *)
(***************************************************************************)
EXTENDS Integers, Sequences, FiniteSets, TLC

VARIABLES
    kind,          \* snarl: node id -> kind of the node stored there
    costs,         \* snarl: node id -> per-predecessor cost map of the node
    wires,         \* snarl: the wires
    stored_nodes,  \* viewer.stored_nodes: node id -> Rect (a function on its keys)
    path_nodes,    \* viewer.path_nodes
    total_cost,    \* app.total_cost
    auto_recalc,   \* app.auto_recalc
    toasts,        \* viewer.toasts: the notifications emitted in this cycle
    pc,            \* position inside update() (a button, "graph", "auto", "end"), or
                   \* "search" (run_dijkstra called alone), or "hang" (a loop never ends)
    todo,          \* nodes snarl.show has still to draw in this cycle
    panicked,      \* TRUE once a keyed lookup or an arithmetic check has panicked
    overflow_checks, \* build profile: TRUE = debug (overflow panics), FALSE = release (wraps)
    result,        \* the results of the run_dijkstra calls made so far on this graph
    trace,         \* the steps of the current update cycle, in order
    vacant,        \* snarl: the vacant slots of the node slab, next to be reused first
    frame          \* the number of the update cycle under way

vars == <<kind, costs, wires, stored_nodes, path_nodes, total_cost, auto_recalc,
          toasts, pc, todo, panicked, overflow_checks, result, trace, vacant,
          frame>>

(***************************************************************************)
(* Bounds                                                                  *)
(***************************************************************************)
MaxNodes == 4          \* node ids are 0 .. MaxNodes-1
MaxWires == 4          \* wires of a graph handed to the path search alone
MaxDistance == 2       \* Distance nodes of such a graph
MaxCostEntries == 1    \* recorded costs of such a graph (other edges take the default)
MaxEdits == 1          \* gestures one snarl.show call handles
MaxCycles == 2         \* calls of update
MaxGraph == 2          \* the editor offers insertion while fewer nodes than this exist
MaxScenarioCost == 10  \* the direct edge of the four-node scenario costs 0 .. MaxScenarioCost
MaxStepCost == 3       \* the other recorded costs of the scenario are 0 .. MaxStepCost

I32Max == 2147483647   \* i32::MAX

NodeIds == 0 .. (MaxNodes - 1)
Kinds == {"Start", "Distance", "Finish"}
EmptyMap == [n \in {} |-> 0]

\* the 32-bit costs the graphs handed to the path search carry
CostVals == {0, 2, I32Max}

(***************************************************************************)
(* i32 addition: `cost + edge_cost`.  With overflow checks (debug build) an *)
(* overflow panics; without (release build) it wraps modulo 2^32.           *)
(***************************************************************************)
Overflows(a, b) ==
    \/ b > 0 /\ a > I32Max - b
    \/ b < 0 /\ a < ((0 - I32Max) - 1) - b

WrappingAdd(a, b) ==
    IF b > 0 /\ a > I32Max - b
    THEN ((a - I32Max) + (b - I32Max)) - 2
    ELSE IF b < 0 /\ a < ((0 - I32Max) - 1) - b
         THEN ((a + I32Max) + (b + I32Max)) + 2
         ELSE a + b

(***************************************************************************)
(* impl Ord for State: reversed on cost (min-heap), then by node id.        *)
(* 1 = Greater, 0 = Equal, -1 = Less.                                       *)
(***************************************************************************)
cmp_cost_only(self, other) ==
    IF other.cost > self.cost THEN 1
    ELSE IF other.cost < self.cost THEN -1
    ELSE 0

cmp(self, other) ==
    IF other.cost > self.cost THEN 1
    ELSE IF other.cost < self.cost THEN -1
    ELSE IF self.node > other.node THEN 1
    ELSE IF self.node < other.node THEN -1
    ELSE 0

\* position of node n in the iteration order `order` (0 for a node that is in
\* no wire's input end, which only the start node can be while it is queued)
Rank(order, n) ==
    IF \E i \in 1 .. Len(order) : order[i] = n
    THEN CHOOSE i \in 1 .. Len(order) : order[i] = n
    ELSE 0

\* the nodes at the input end of some wire
Targets(w) == {p[2] : p \in w}

\* all orders in which iterating the wire set can meet the input ends of wires
Orders(w) ==
    LET T == Targets(w)
        n == Cardinality(T)
    IN  {o \in [1 .. n -> T] : \A t \in T : \E i \in 1 .. n : o[i] = t}

\* BinaryHeap::pop: a greatest element under cmp.  Elements that compare Equal
\* are popped in an order the heap's layout decides; `order` stands for it.
Pop(pq, order) ==
    LET top == {s \in pq : \A t \in pq : cmp(s, t) >= 0}
    IN  CHOOSE s \in top : \A t \in top : Rank(order, s.node) <= Rank(order, t.node)

\* snarl.out_pin(op).remotes: the nodes wired to the output, in the iteration
\* order of the wire set
RECURSIVE SeqOfSet(_, _, _)
SeqOfSet(S, order, i) ==
    IF i > Len(order) THEN <<>>
    ELSE IF order[i] \in S THEN <<order[i]>> \o SeqOfSet(S, order, i + 1)
    ELSE SeqOfSet(S, order, i + 1)

Remotes(w, node, order) == SeqOfSet({v \in NodeIds : <<node, v>> \in w}, order, 1)

\* edge_cost with the default of the Distance branch in the Finish branch too
EdgeCost_FinishDefaultOne(k, c, node, remote) ==
    IF k[remote] \in {"Distance", "Finish"}
    THEN IF node \in DOMAIN c[remote] THEN c[remote][node] ELSE 1
    ELSE 0

\* edge_cost with the default of the Finish branch in the Distance branch too
EdgeCost_DistanceDefaultZero(k, c, node, remote) ==
    IF k[remote] \in {"Distance", "Finish"}
    THEN IF node \in DOMAIN c[remote] THEN c[remote][node] ELSE 0
    ELSE 0

\* edge_cost of main.rs:415-425
EdgeCost(k, c, node, remote) ==
    IF k[remote] = "Distance"
    THEN IF node \in DOMAIN c[remote] THEN c[remote][node] ELSE 1
    ELSE IF k[remote] = "Finish"
    THEN IF node \in DOMAIN c[remote] THEN c[remote][node] ELSE 0
    ELSE 0

\* the for-loop over the remotes of the popped node (main.rs:414-438);
\* st = [dist, prev, pq, panic]
RECURSIVE Relax(_, _, _, _, _, _, _)
Relax(st, k, c, node, cost, remotes, checks) ==
    IF remotes = <<>> \/ st.panic THEN st
    ELSE LET remote == Head(remotes)
             edge_cost == EdgeCost(k, c, node, remote)
         IN  IF checks /\ Overflows(cost, edge_cost)
             THEN [st EXCEPT !.panic = TRUE]
             ELSE LET next == [cost |-> WrappingAdd(cost, edge_cost), node |-> remote]
                      st2 == IF next.cost < st.dist[remote]
                             THEN [st EXCEPT !.dist[remote] = next.cost,
                                             !.prev = [n \in (DOMAIN st.prev) \cup {remote} |->
                                                          IF n = remote THEN node ELSE st.prev[n]],
                                             !.pq = st.pq \cup {next}]
                             ELSE st
                  IN  Relax(st2, k, c, node, cost, Tail(remotes), checks)

\* the while-let loop (main.rs:395-440)
RECURSIVE Loop(_, _, _, _, _, _, _)
Loop(st, k, c, w, finish, order, checks) ==
    IF st.pq = {} \/ st.panic THEN st
    ELSE LET top == Pop(st.pq, order)
             st1 == [st EXCEPT !.pq = st.pq \ {top}]
         IN  IF top.node = finish THEN st1
             ELSE IF top.cost > st1.dist[top.node]
             THEN Loop(st1, k, c, w, finish, order, checks)
             ELSE Loop(Relax(st1, k, c, top.node, top.cost,
                             Remotes(w, top.node, order), checks),
                       k, c, w, finish, order, checks)

\* path reconstruction (main.rs:444-451); <<>> when the prev links never
\* reach start: they then run into a cycle (every key of prev has a value that
\* is start or a key of prev) and the while loop does not end
RECURSIVE Reconstruct(_, _, _, _)
Reconstruct(prev, start, current, path) ==
    IF current = start THEN path
    ELSE IF current \notin DOMAIN prev \/ Len(path) > MaxNodes THEN <<>>
    ELSE Reconstruct(prev, start, prev[current], <<prev[current]>> \o path)

\* the last node of the given kind in slab order (main.rs:366-372), as a set
\* of at most one element
LastOfKind(k, t) ==
    LET S == {n \in NodeIds : k[n] = t}
    IN  IF S = {} THEN {} ELSE {CHOOSE n \in S : \A m \in S : m <= n}

Ok(path, total) == [tag |-> "Ok", path |-> path, err |-> "", total |-> total]
Err(msg, total) == [tag |-> "Err", path |-> <<>>, err |-> msg, total |-> total]
Panic(total) == [tag |-> "Panic", path |-> <<>>, err |-> "", total |-> total]
\* the call does not return: the while loop of main.rs:448-451 never ends
Hang(total) == [tag |-> "Hang", path |-> <<>>, err |-> "", total |-> total]

\* the two ok_or(..)? of main.rs:374-375: the message of the first failing
\* one, "" when both nodes were found
MissingEndpoint_FinishFirst(start_node, finish_node) ==
    IF finish_node = {} THEN "Finish node not found"
    ELSE IF start_node = {} THEN "Start node not found"
    ELSE ""

MissingEndpoint(start_node, finish_node) ==
    IF start_node = {} THEN "Start node not found"
    ELSE IF finish_node = {} THEN "Finish node not found"
    ELSE ""

(***************************************************************************)
(* DijkstraApp::run_dijkstra.  tc is total_cost before the call; the field  *)
(* total of the value is total_cost after it.                               *)
(***************************************************************************)
run_dijkstra(k, c, w, tc, order, checks) ==
    LET start_node == LastOfKind(k, "Start")
        finish_node == LastOfKind(k, "Finish")
    IN  IF MissingEndpoint(start_node, finish_node) # ""
        THEN Err(MissingEndpoint(start_node, finish_node), tc)
        ELSE LET start == CHOOSE n \in start_node : TRUE
                 finish == CHOOSE n \in finish_node : TRUE
                 present == {n \in NodeIds : k[n] # "None"}
                 st0 == [dist |-> [n \in present |-> IF n = start THEN 0 ELSE I32Max],
                         prev |-> EmptyMap,
                         pq |-> {[cost |-> 0, node |-> start]},
                         panic |-> FALSE]
                 st == Loop(st0, k, c, w, finish, order, checks)
             IN  IF st.panic THEN Panic(tc)
                 ELSE IF finish \in DOMAIN st.prev \/ finish = start
                 THEN LET path == Reconstruct(st.prev, start, finish, <<finish>>)
                      IN  IF path = <<>> THEN Hang(tc) ELSE Ok(path, st.dist[finish])
                 ELSE Err("No path found", tc)

(***************************************************************************)
(* SpecDijkstra: run_dijkstra as a function of the graph.  Init draws the   *)
(* graph and the build profile; DRun calls run_dijkstra (twice at most)     *)
(* with an arbitrary iteration order of the wire set.                       *)
(***************************************************************************)
LegalPair_StartFinish(k, u, v) ==
    \/ k[u] = "Start" /\ k[v] = "Distance"
    \/ k[u] = "Distance" /\ k[v] = "Distance"
    \/ k[u] = "Distance" /\ k[v] = "Finish"
    \/ k[u] = "Start" /\ k[v] = "Finish"

\* the pairs DijkstraViewer::connect wires (main.rs:201-213)
LegalPair(k, u, v) ==
    \/ k[u] = "Start" /\ k[v] = "Distance"
    \/ k[u] = "Distance" /\ k[v] = "Distance"
    \/ k[u] = "Distance" /\ k[v] = "Finish"

\* the graphs handed to the path search: at most one Start, one Finish and
\* MaxDistance Distance nodes in the slots of the slab, at most MaxWires wires
\* between the pairs the editor connects, at most MaxCostEntries recorded costs
KindArrangements ==
    {k \in [NodeIds -> Kinds \cup {"None"}] :
        /\ Cardinality({n \in NodeIds : k[n] = "Start"}) <= 1
        /\ Cardinality({n \in NodeIds : k[n] = "Finish"}) <= 1
        /\ Cardinality({n \in NodeIds : k[n] = "Distance"}) <= MaxDistance}

\* the map with the one entry key -> val
MapOf(key, val) == [x \in {key} |-> val]

\* the cost maps that record cost ec[<<u, v>>] in v's map for each wire of e
CostsOf(e, ec) == [v \in NodeIds |-> [u \in {u \in NodeIds : <<u, v>> \in e} |-> ec[<<u, v>>]]]

InitD ==
    /\ kind \in KindArrangements
    /\ wires \in {w \in SUBSET {p \in NodeIds \X NodeIds : LegalPair(kind, p[1], p[2])} :
                   Cardinality(w) <= MaxWires}
    /\ \E e \in {e \in SUBSET wires : Cardinality(e) <= MaxCostEntries} :
         \E ec \in [e -> CostVals] : costs = CostsOf(e, ec)
    /\ overflow_checks \in BOOLEAN
    /\ stored_nodes = EmptyMap
    /\ path_nodes = <<>>
    /\ total_cost = 1
    /\ auto_recalc = FALSE
    /\ toasts = <<>>
    /\ pc = "search"
    /\ todo = {}
    /\ panicked = FALSE
    /\ result = <<>>
    /\ trace = <<>>
    /\ vacant = <<>>
    /\ frame = 1

DRun ==
    /\ pc = "search"
    /\ ~panicked
    /\ Len(result) < 2
    /\ \E order \in Orders(wires) :
         LET r == run_dijkstra(kind, costs, wires, total_cost, order, overflow_checks)
         IN  /\ result' = Append(result, r)
             /\ total_cost' = r.total
             /\ panicked' = (r.tag = "Panic")
             /\ pc' = IF r.tag = "Hang" THEN "hang" ELSE pc
    /\ UNCHANGED <<kind, costs, wires, stored_nodes, path_nodes, auto_recalc,
                   toasts, todo, overflow_checks, trace>>
    /\ UNCHANGED <<vacant, frame>>

NextD == DRun

SpecDijkstra == InitD /\ [][NextD]_vars

(***************************************************************************)
(* SpecScenario: run_dijkstra on the four-node graph                        *)
(*   Start -> Distance -> Distance -> Finish, first Distance -> Finish      *)
(* whose nodes were inserted in this order and hold four consecutive slab   *)
(* keys s, s+1, s+2, s+3 (s = 0 when they are the first nodes inserted).    *)
(* Init draws s and the recorded costs of the edges; the edge from the      *)
(* second Distance node into Finish has a recorded cost or none.            *)
(***************************************************************************)
ScenarioKind(s) ==
    [n \in NodeIds |-> IF n = s THEN "Start"
                       ELSE IF n \in {s + 1, s + 2} THEN "Distance"
                       ELSE IF n = s + 3 THEN "Finish"
                       ELSE "None"]

ScenarioWires(s) == {<<s, s + 1>>, <<s + 1, s + 2>>, <<s + 2, s + 3>>, <<s + 1, s + 3>>}

ScenarioCosts == 0 .. MaxScenarioCost
StepCosts == 0 .. MaxStepCost

InitS ==
    /\ \E s \in 0 .. (MaxNodes - 4) :
         /\ kind = ScenarioKind(s)
         /\ wires = ScenarioWires(s)
         /\ \E a \in StepCosts, b \in StepCosts, c \in ScenarioCosts :
              \E last \in {EmptyMap} \cup {MapOf(s + 2, d) : d \in StepCosts} :
                 costs = [n \in NodeIds |->
                             IF n = s + 1 THEN MapOf(s, a)
                             ELSE IF n = s + 2 THEN MapOf(s + 1, b)
                             ELSE IF n = s + 3 THEN MapOf(s + 1, c) @@ last
                             ELSE EmptyMap]
    /\ overflow_checks \in BOOLEAN
    /\ stored_nodes = EmptyMap
    /\ path_nodes = <<>>
    /\ total_cost = 1
    /\ auto_recalc = FALSE
    /\ toasts = <<>>
    /\ pc = "search"
    /\ todo = {}
    /\ panicked = FALSE
    /\ result = <<>>
    /\ trace = <<>>
    /\ vacant = <<>>
    /\ frame = 1

SpecScenario == InitS /\ [][NextD]_vars

(***************************************************************************)
(* The graph store (egui_snarl::Snarl) as the application uses it.          *)
(***************************************************************************)
Present(k) == {n \in NodeIds : k[n] # "None"}

EmptyKind == [n \in NodeIds |-> "None"]
EmptyCosts == [n \in NodeIds |-> EmptyMap]

\* snarl.remove_node(n): the node and every wire at one of its pins
RemoveNodeWires(w, n) == {p \in w : p[1] # n /\ p[2] # n}

\* the length of the slab: one more than its last occupied or vacant slot
SlabLen(k, vac) ==
    LET used == Present(k) \cup {vac[i] : i \in 1 .. Len(vac)}
    IN  IF used = {} THEN 0 ELSE 1 + (CHOOSE n \in used : \A m \in used : m <= n)

\* the slot snarl.insert_node fills: the most recently vacated one, or a new
\* slot at the end of the slab
NextKey(k, vac) == IF vac # <<>> THEN Head(vac) ELSE SlabLen(k, vac)

\* the given slots in ascending order
RECURSIVE Ascending(_)
Ascending(S) ==
    IF S = {} THEN <<>>
    ELSE LET n == CHOOSE n \in S : \A m \in S : n <= m
         IN  <<n>> \o Ascending(S \ {n})

\* a sequence back to front; Reverse(Ascending(S)) is the vacant list after
\* removing the nodes S in slab order (main.rs:515-518)
RECURSIVE Reverse(_)
Reverse(q) == IF q = <<>> THEN <<>> ELSE Reverse(Tail(q)) \o <<Head(q)>>

\* the orders in which a file can list the keys S (a file written by Save
\* lists them ascending; a file written by hand lists them in any order)
RECURSIVE KeyOrders(_)
KeyOrders(S) ==
    IF S = {} THEN {<<>>}
    ELSE UNION {{<<n>> \o q : q \in KeyOrders(S \ {n})} : n \in S}

\* the vacant list of the slab deserialized from a file that lists the keys in
\* the order keys (main.rs:501).  A key beyond the slab's end first appends
\* the holes below it, each put at the front of the vacant list, so a file
\* with ascending keys leaves the holes highest first.  A key that fills a
\* hole appended earlier breaks that list, and the slab rebuilds it with the
\* lowest hole first.
VacantOf(keys) ==
    LET S == {keys[i] : i \in 1 .. Len(keys)}
        holes == {n \in NodeIds : n \notin S /\ \E m \in S : m > n}
        broken == \E i, j \in 1 .. Len(keys) : i < j /\ keys[j] < keys[i]
    IN  IF broken THEN Ascending(holes) ELSE Reverse(Ascending(holes))

(***************************************************************************)
(* Layout rectangles.  A Rect is [l, r, y]: the x of its left and right     *)
(* edge and the y of its centre, so left_center() = (l, y) and              *)
(* right_center() = (r, y).                                                 *)
(***************************************************************************)
RectA == [l |-> 0, r |-> 4, y |-> 0]
RectB == [l |-> 51, r |-> 55, y |-> 2209]
RectC == [l |-> 4101, r |-> 4105, y |-> 3]
Rects == {RectA, RectB, RectC}

\* the rectangle the nodes report in the update cycles of Spec
CycleRects == {RectA}

\* the f32 nearest to the integer n >= 0 (24 significant bits, ties to even)
RECURSIVE Ulp(_)
Ulp(n) == IF n < 16777216 THEN 1 ELSE 2 * Ulp(n \div 2)

F32(n) ==
    LET q == Ulp(n)
        lo == n - (n % q)
    IN  IF 2 * (n % q) < q THEN lo
        ELSE IF 2 * (n % q) > q THEN lo + q
        ELSE IF (lo \div q) % 2 = 0 THEN lo ELSE lo + q

\* the square of the distance between node_rect.left_center() and
\* parent_node.right_center() (main.rs:245-250, before .sqrt()), in f32: each
\* .powi(2) and the sum are rounded
Dist2(node_rect, parent_node) ==
    F32(F32((node_rect.l - parent_node.r) * (node_rect.l - parent_node.r))
          + F32((node_rect.y - parent_node.y) * (node_rect.y - parent_node.y)))

\* the integer part of the square root
RECURSIVE Isqrt(_)
Isqrt(n) ==
    IF n < 2 THEN n
    ELSE LET r == 2 * Isqrt(n \div 4)
         IN  IF r + 1 <= n \div (r + 1) THEN r + 1 ELSE r

\* the number of f32 half-ulps in one unit at s: 2^(24 - k) for 2^k <= s < 2^(k+1)
RECURSIVE HalfUlps(_)
HalfUlps(s) == IF s < 2 THEN 16777216 ELSE HalfUlps(s \div 2) \div 2

\* .sqrt() then .round() as i32 (main.rs:251, 254) of the f32 n.  With
\* s = Isqrt(n) the result is s + 1 when the f32 nearest to the square root is
\* at least s + 1/2, that is when the square root is above s + 1/2 - 1/H, H
\* the number of half-ulps in a unit: n - s*s > s + 1/4 - (2s+1)/H + 1/(H*H).
\* Below 2048 this is the nearest integer; from 2048 on a square root just
\* under s + 1/2 is rounded to s + 1/2 in f32 and then up.
RoundSqrt(n) ==
    LET s == Isqrt(n)
        H == HalfUlps(s)
    IN  IF s = 0 THEN 0
        ELSE IF H * ((n - s * s) - s) + 2 * s >= H \div 4 THEN s + 1 ELSE s

\* main.rs:254-255: cost = round(dist) / 10, at least 1
GeomCost_Unclamped(node_rect, parent_node) ==
    RoundSqrt(Dist2(node_rect, parent_node)) \div 10

GeomCost(node_rect, parent_node) ==
    LET cost == RoundSqrt(Dist2(node_rect, parent_node)) \div 10
    IN  IF cost < 1 THEN 1 ELSE cost

\* stored_nodes.insert(node, graph_rect)
MapInsert(m, key, val) == [x \in (DOMAIN m) \cup {key} |-> IF x = key THEN val ELSE m[x]]

\* stored_nodes.remove(&node)
MapRemove(m, key) == [x \in (DOMAIN m) \ {key} |-> m[x]]

\* the loop of main.rs:228-302 over the rectangle cache st: the new cost maps
Recompute(k, c, w, st) ==
    [v \in NodeIds |->
        IF v \in DOMAIN st /\ k[v] \in {"Distance", "Finish"}
        THEN LET new == [u \in {u \in DOMAIN st : <<u, v>> \in w} |-> GeomCost(st[v], st[u])]
             IN  IF DOMAIN new # {} THEN new ELSE c[v]
        ELSE c[v]]

\* the Finish branch writing the other variant
RecomputeKind_FinishAsDistance(k, w, st) ==
    [v \in NodeIds |->
        IF /\ v \in DOMAIN st /\ k[v] \in {"Distance", "Finish"}
           /\ \E u \in DOMAIN st : <<u, v>> \in w
        THEN "Distance"
        ELSE k[v]]

\* the variant the loop writes back with the new map (main.rs:262-263 and
\* 297-298): DijkstraNode::Distance(costs) in the Distance branch,
\* DijkstraNode::Finish(costs) in the Finish branch, when costs is not empty
RecomputeKind(k, w, st) ==
    [v \in NodeIds |->
        IF /\ v \in DOMAIN st /\ k[v] = "Distance"
           /\ \E u \in DOMAIN st : <<u, v>> \in w
        THEN "Distance"
        ELSE IF /\ v \in DOMAIN st /\ k[v] = "Finish"
                /\ \E u \in DOMAIN st : <<u, v>> \in w
        THEN "Finish"
        ELSE k[v]]

(***************************************************************************)
(* Snapshots the Load button can be given.                                  *)
(***************************************************************************)
Graph(k, c, w) == [kind |-> k, costs |-> c, wires |-> w]

\* saved after inserting three nodes and removing the middle one
SnapGap ==
    Graph([EmptyKind EXCEPT ![0] = "Start", ![2] = "Distance"],
          [EmptyCosts EXCEPT ![2] = MapInsert(EmptyMap, 0, 2)],
          {<<0, 2>>})

\* a file that names two Start nodes
SnapTwoStarts ==
    Graph([EmptyKind EXCEPT ![0] = "Start", ![1] = "Start", ![2] = "Finish"],
          EmptyCosts, {})

\* Start -> Distance -> Finish, saved before any cost was computed
SnapPath ==
    Graph([EmptyKind EXCEPT ![0] = "Start", ![1] = "Distance", ![2] = "Finish"],
          EmptyCosts, {<<0, 1>>, <<1, 2>>})

Snapshots == {SnapGap, SnapTwoStarts, SnapPath}

(***************************************************************************)
(* The update cycle, DijkstraApp::update.  pc is the position in it.  In    *)
(* the side panel and the window (main.rs:465-547) pc names the button      *)
(* whose `if ui.button(..).clicked()` is evaluated next:                    *)
(*   "controls"    Save (main.rs:466)                                       *)
(*   "load"        Load (main.rs:487)                                       *)
(*   "remove_all"  Remove all (main.rs:514)                                 *)
(*   "clear"       Clear Dijkstra Path (main.rs:522)                        *)
(*   "run"         Run Dijkstra Algorithm (main.rs:526)                     *)
(*   "toggle"      Auto recalc (main.rs:541)                                *)
(* Any of the six may be clicked in one cycle; the handlers of the clicked  *)
(* ones run in this order.  A handler's action is enabled at its own        *)
(* position and at every earlier one (the buttons in between are then not   *)
(* clicked).  After the buttons:                                            *)
(*   "graph"     snarl.show (main.rs:549): every node is drawn and reports  *)
(*               its rectangle, and the pointer's gestures are handled      *)
(*   "auto"      the auto_recalc block (main.rs:552-560)                    *)
(*   "end"       update has returned                                        *)
(* A handler that panics leaves pc where it was.  update is called          *)
(* MaxCycles times, and one snarl.show call handles MaxEdits gestures.      *)
(***************************************************************************)
Step(op, a, b) == [op |-> op, a |-> a, b |-> b]

\* the positions from which the button evaluated at position p can be the
\* next one clicked: its own and every earlier one
UpTo(p) ==
    CASE p = "controls" -> {"controls"}
      [] p = "load" -> {"controls", "load"}
      [] p = "remove_all" -> {"controls", "load", "remove_all"}
      [] p = "clear" -> {"controls", "load", "remove_all", "clear"}
      [] p = "run" -> {"controls", "load", "remove_all", "clear", "run"}
      [] p = "toggle" -> {"controls", "load", "remove_all", "clear", "run", "toggle"}

\* the gestures snarl.show hands to the viewer
Gestures == {"remove", "insert", "connect", "disconnect", "drop_inputs", "drop_outputs"}

\* gestures handled so far by the snarl.show call of this cycle
Edits == Cardinality({i \in 1 .. Len(trace) : trace[i].op \in Gestures})

Init ==
    /\ kind = EmptyKind
    /\ costs = EmptyCosts
    /\ wires = {}
    /\ stored_nodes = EmptyMap
    /\ path_nodes = <<>>
    /\ total_cost = 1
    /\ auto_recalc = FALSE
    /\ toasts = <<>>
    /\ pc = "controls"
    /\ todo = {}
    /\ panicked = FALSE
    /\ overflow_checks \in BOOLEAN
    /\ result = <<>>
    /\ trace = <<>>
    /\ vacant = <<>>
    /\ frame = 1

\* none of the buttons still to be evaluated is clicked: snarl.show begins
NoClick ==
    /\ pc \in UpTo("toggle") /\ ~panicked
    /\ pc' = "graph"
    /\ todo' = Present(kind)
    /\ UNCHANGED <<kind, costs, wires, stored_nodes, path_nodes, total_cost,
                   auto_recalc, toasts, panicked, overflow_checks, result, trace>>
    /\ UNCHANGED <<vacant, frame>>

\* "Save" (main.rs:466-486): the graph is serialized, the dialog is opened in
\* the directory "saved" of the working directory, and the text is written to
\* the file the dialog returns.  A failing serialization and a failing write
\* each emit an error notification; nothing else changes (a cancelled dialog
\* writes nothing and reports nothing).  std::env::current_dir().unwrap()
\* (main.rs:478) panics when the working directory of the process is gone,
\* after the serialization and before the dialog.
Save ==
    /\ pc \in UpTo("controls") /\ ~panicked
    /\ \E serialize_fails \in BOOLEAN, current_dir_fails \in BOOLEAN, write_fails \in BOOLEAN :
         /\ toasts' = toasts
                        \o (IF serialize_fails THEN <<Step("error", 0, 0)>> ELSE <<>>)
                        \o (IF ~current_dir_fails /\ write_fails
                            THEN <<Step("error", 0, 0)>> ELSE <<>>)
         /\ panicked' = current_dir_fails
         /\ pc' = IF current_dir_fails THEN pc ELSE "load"
    /\ trace' = Append(trace, Step("save", 0, 0))
    /\ UNCHANGED <<kind, costs, wires, stored_nodes, path_nodes, total_cost,
                   auto_recalc, todo, overflow_checks, result>>
    /\ UNCHANGED <<vacant, frame>>

\* Load (main.rs:487-509), the file holds a snapshot that deserializes; its
\* keys are listed in any order.  std::env::current_dir().unwrap()
\* (main.rs:491) panics when the working directory of the process is gone,
\* before the dialog: nothing is read and the graph is kept.
Load ==
    /\ pc \in UpTo("load") /\ ~panicked
    /\ \/ /\ \E snap \in Snapshots : \E keys \in KeyOrders(Present(snap.kind)) :
                /\ kind' = snap.kind
                /\ costs' = snap.costs
                /\ wires' = snap.wires
                /\ vacant' = VacantOf(keys)
          /\ pc' = "remove_all"
          /\ UNCHANGED panicked
       \/ /\ panicked' = TRUE
          /\ UNCHANGED <<kind, costs, wires, vacant, pc>>
    /\ trace' = Append(trace, Step("load", 0, 0))
    /\ UNCHANGED <<stored_nodes, path_nodes, total_cost, auto_recalc, toasts,
                   todo, overflow_checks, result, frame>>

\* Load, the file cannot be read (two notifications: the read error, then the
\* deserialization error of the empty string) or does not deserialize (one)
LoadMalformed ==
    /\ pc \in UpTo("load") /\ ~panicked
    /\ kind' = EmptyKind
    /\ costs' = EmptyCosts
    /\ wires' = {}
    /\ vacant' = <<>>
    /\ \E unreadable \in BOOLEAN :
         toasts' = IF unreadable
                   THEN toasts \o <<Step("error", 0, 0), Step("error", 0, 0)>>
                   ELSE Append(toasts, Step("error", 0, 0))
    /\ pc' = "remove_all"
    /\ trace' = Append(trace, Step("load", 0, 0))
    /\ UNCHANGED <<stored_nodes, path_nodes, total_cost, auto_recalc,
                   todo, panicked, overflow_checks, result, frame>>

\* "Remove all" (main.rs:514-520)
RemoveAll ==
    /\ pc \in UpTo("remove_all") /\ ~panicked
    /\ stored_nodes' = [x \in (DOMAIN stored_nodes) \ Present(kind) |-> stored_nodes[x]]
    /\ kind' = EmptyKind
    /\ costs' = EmptyCosts
    /\ wires' = {}
    /\ path_nodes' = <<>>
    /\ vacant' = Reverse(Ascending(Present(kind))) \o vacant
    /\ pc' = "clear"
    /\ trace' = Append(trace, Step("remove_all", 0, 0))
    /\ UNCHANGED <<total_cost, auto_recalc, toasts, todo, panicked, overflow_checks,
                   result, frame>>

\* "Clear Dijkstra Path" (main.rs:522-524)
ClearPath ==
    /\ pc \in UpTo("clear") /\ ~panicked
    /\ path_nodes' = <<>>
    /\ pc' = "run"
    /\ trace' = Append(trace, Step("clear", 0, 0))
    /\ UNCHANGED <<kind, costs, wires, stored_nodes, total_cost, auto_recalc,
                   toasts, todo, panicked, overflow_checks, result>>
    /\ UNCHANGED <<vacant, frame>>

\* "Run Dijkstra Algorithm" (main.rs:526-540)
RunButton ==
    /\ pc \in UpTo("run") /\ ~panicked
    /\ \E order \in Orders(wires) :
         LET r == run_dijkstra(kind, costs, wires, total_cost, order, overflow_checks)
         IN  /\ result' = Append(result, r)
             /\ total_cost' = r.total
             /\ panicked' = (r.tag = "Panic")
             /\ path_nodes' = IF r.tag = "Ok" THEN r.path ELSE <<>>
             /\ toasts' = IF r.tag = "Ok" THEN Append(toasts, Step("success", r.total, 0))
                          ELSE IF r.tag = "Err" THEN Append(toasts, Step("error", 0, 0))
                          ELSE toasts
             /\ pc' = IF r.tag = "Hang" THEN "hang"
                      ELSE IF r.tag = "Panic" THEN pc
                      ELSE "toggle"
    /\ trace' = Append(trace, Step("run", 0, 0))
    /\ UNCHANGED <<kind, costs, wires, stored_nodes, auto_recalc, todo, overflow_checks>>
    /\ UNCHANGED <<vacant, frame>>

\* the "Auto recalc" button (main.rs:541-546), the last of the window: the
\* window is done and snarl.show begins
ToggleAuto ==
    /\ pc \in UpTo("toggle") /\ ~panicked
    /\ auto_recalc' = ~auto_recalc
    /\ todo' = Present(kind)
    /\ pc' = "graph"
    /\ trace' = Append(trace, Step("toggle", 0, 0))
    /\ UNCHANGED <<kind, costs, wires, stored_nodes, path_nodes, total_cost,
                   toasts, panicked, overflow_checks, result>>
    /\ UNCHANGED <<vacant, frame>>

\* DijkstraViewer::final_node_rect(node, graph_rect) (main.rs:216-304)
final_node_rect(node, graph_rect) ==
    LET st == MapInsert(stored_nodes, node, graph_rect)
        all == Cardinality(DOMAIN st) = Cardinality(Present(kind))
        bad == all /\ \E n \in DOMAIN st : kind[n] = "None"
    IN  /\ stored_nodes' = st
        /\ todo' = todo \ {node}
        /\ panicked' = bad
        /\ costs' = IF all /\ ~bad THEN Recompute(kind, costs, wires, st) ELSE costs
        /\ kind' = IF all /\ ~bad THEN RecomputeKind(kind, wires, st) ELSE kind
        /\ trace' = IF all /\ (trace = <<>> \/ trace[Len(trace)].op # "recompute")
                    THEN Append(trace, Step("recompute", 0, 0))
                    ELSE trace
        /\ UNCHANGED <<wires, path_nodes, total_cost, auto_recalc, toasts, pc,
                       overflow_checks, result, vacant, frame>>

\* snarl.show has drawn a node and calls final_node_rect for it
FinalNodeRect ==
    /\ pc = "graph" /\ ~panicked
    /\ \E node \in todo, graph_rect \in CycleRects : final_node_rect(node, graph_rect)

(***************************************************************************)
(* final_node_rect alone: snarl.show draws a graph that Load has just read  *)
(* from a file written by Save, and each node reports one of Rects.         *)
(***************************************************************************)
InitL ==
    /\ \E snap \in Snapshots :
         /\ kind = snap.kind
         /\ costs = snap.costs
         /\ wires = snap.wires
         /\ vacant = VacantOf(Ascending(Present(snap.kind)))
    /\ todo = Present(kind)
    /\ stored_nodes = EmptyMap
    /\ path_nodes = <<>>
    /\ total_cost = 1
    /\ auto_recalc = FALSE
    /\ toasts = <<>>
    /\ pc = "graph"
    /\ panicked = FALSE
    /\ overflow_checks \in BOOLEAN
    /\ result = <<>>
    /\ trace = <<Step("load", 0, 0)>>
    /\ frame = 1

Layout ==
    /\ pc = "graph" /\ ~panicked
    /\ \E node \in todo, graph_rect \in Rects : final_node_rect(node, graph_rect)

NextL == Layout

SpecLayout == InitL /\ [][NextL]_vars

\* "Remove" in the menu of a node (main.rs:192-196); the node is not drawn on
RemoveNode ==
    /\ pc = "graph" /\ ~panicked /\ Edits < MaxEdits
    /\ \E node \in todo :
         /\ stored_nodes' = MapRemove(stored_nodes, node)
         /\ kind' = [kind EXCEPT ![node] = "None"]
         /\ costs' = [costs EXCEPT ![node] = EmptyMap]
         /\ wires' = RemoveNodeWires(wires, node)
         /\ vacant' = <<node>> \o vacant
         /\ todo' = todo \ {node}
         /\ trace' = Append(trace, Step("remove", node, 0))
    /\ UNCHANGED <<path_nodes, total_cost, auto_recalc, toasts, pc, panicked,
                   overflow_checks, result, frame>>

\* SnarlViewer::drop_inputs, the default method the viewer inherits: the
\* wires into the input pin of a node being drawn are removed (inputs() gives
\* a Start node no input pin, main.rs:62-68)
DropInputs ==
    /\ pc = "graph" /\ ~panicked /\ Edits < MaxEdits
    /\ \E node \in todo :
         /\ kind[node] \in {"Distance", "Finish"}
         /\ wires' = {p \in wires : p[2] # node}
         /\ trace' = Append(trace, Step("drop_inputs", node, 0))
    /\ UNCHANGED <<kind, costs, stored_nodes, path_nodes, total_cost, auto_recalc,
                   toasts, pc, todo, panicked, overflow_checks, result>>
    /\ UNCHANGED <<vacant, frame>>

\* SnarlViewer::drop_outputs, the default method the viewer inherits: the
\* wires out of the output pin of a node being drawn are removed (outputs()
\* gives a Finish node no output pin, main.rs:113-119)
DropOutputs ==
    /\ pc = "graph" /\ ~panicked /\ Edits < MaxEdits
    /\ \E node \in todo :
         /\ kind[node] \in {"Start", "Distance"}
         /\ wires' = {p \in wires : p[1] # node}
         /\ trace' = Append(trace, Step("drop_outputs", node, 0))
    /\ UNCHANGED <<kind, costs, stored_nodes, path_nodes, total_cost, auto_recalc,
                   toasts, pc, todo, panicked, overflow_checks, result>>
    /\ UNCHANGED <<vacant, frame>>

\* the buttons show_graph_menu offers (main.rs:153-175)
Offered(k) ==
    {"Distance"}
        \cup (IF \A n \in Present(k) : k[n] # "Start" THEN {"Start"} ELSE {})
        \cup (IF \A n \in Present(k) : k[n] # "Finish" THEN {"Finish"} ELSE {})

\* the clicked buttons of the menu in the order their `if` is evaluated:
\* "Start" (main.rs:158), "Value" (main.rs:163), "Finish" (main.rs:171)
MenuOrder(clicked) ==
    (IF "Start" \in clicked THEN <<"Start">> ELSE <<>>)
        \o (IF "Distance" \in clicked THEN <<"Distance">> ELSE <<>>)
        \o (IF "Finish" \in clicked THEN <<"Finish">> ELSE <<>>)

\* snarl.insert_node for each kind of ts in turn: the graph, the vacant list
\* and the ids given
RECURSIVE InsertNodes(_, _, _, _)
InsertNodes(k, vac, ts, ids) ==
    IF ts = <<>> THEN [kind |-> k, vacant |-> vac, ids |-> ids]
    ELSE LET id == NextKey(k, vac)
         IN  InsertNodes([n \in DOMAIN k \cup {id} |-> IF n = id THEN Head(ts) ELSE k[n]],
                         IF vac # <<>> THEN Tail(vac) ELSE vac,
                         Tail(ts), Append(ids, id))

\* show_graph_menu (main.rs:146-176): each clicked button of the menu inserts
\* a node
InsertNode ==
    /\ pc = "graph" /\ ~panicked /\ Edits < MaxEdits /\ todo = {}
    /\ \E clicked \in (SUBSET Offered(kind)) \ {{}} :
         LET r == InsertNodes(kind, vacant, MenuOrder(clicked), <<>>)
         IN  /\ Cardinality(Present(kind)) + Cardinality(clicked) <= MaxGraph
             /\ \A i \in 1 .. Len(r.ids) : r.ids[i] \in NodeIds
             /\ kind' = r.kind
             /\ costs' = [n \in NodeIds |->
                            IF \E i \in 1 .. Len(r.ids) : r.ids[i] = n THEN EmptyMap
                            ELSE costs[n]]
             /\ vacant' = r.vacant
             /\ trace' = trace \o [i \in 1 .. Len(r.ids) |-> Step("insert", r.ids[i], 0)]
    /\ pc' = "auto"
    /\ UNCHANGED <<wires, stored_nodes, path_nodes, total_cost, auto_recalc, toasts,
                   todo, panicked, overflow_checks, result, frame>>

\* the match of DijkstraViewer::connect (main.rs:201-213): the wires after
\* connect(from, to)
connect(k, w, from, to) == IF LegalPair(k, from, to) THEN w \cup {<<from, to>>} ELSE w

\* DijkstraViewer::connect(from, to) (main.rs:199-214): a wire is dragged from
\* an output pin of `from` to an input pin of `to`
Connect ==
    /\ pc = "graph" /\ ~panicked /\ Edits < MaxEdits /\ todo = {}
    /\ \E from \in Present(kind), to \in Present(kind) :
         /\ wires' = connect(kind, wires, from, to)
         /\ trace' = Append(trace, Step("connect", from, to))
    /\ pc' = "auto"
    /\ UNCHANGED <<kind, costs, stored_nodes, path_nodes, total_cost, auto_recalc,
                   toasts, todo, panicked, overflow_checks, result>>
    /\ UNCHANGED <<vacant, frame>>

\* SnarlViewer::disconnect, the default method the viewer inherits: the wire
\* from -> to is removed
Disconnect ==
    /\ pc = "graph" /\ ~panicked /\ Edits < MaxEdits /\ todo = {}
    /\ \E p \in wires :
         /\ wires' = wires \ {p}
         /\ trace' = Append(trace, Step("disconnect", p[1], p[2]))
    /\ pc' = "auto"
    /\ UNCHANGED <<kind, costs, stored_nodes, path_nodes, total_cost, auto_recalc,
                   toasts, todo, panicked, overflow_checks, result>>
    /\ UNCHANGED <<vacant, frame>>

\* snarl.show returns
EndShow ==
    /\ pc = "graph" /\ ~panicked /\ todo = {}
    /\ pc' = "auto"
    /\ UNCHANGED <<kind, costs, wires, stored_nodes, path_nodes, total_cost,
                   auto_recalc, toasts, todo, panicked, overflow_checks, result, trace>>
    /\ UNCHANGED <<vacant, frame>>

\* the block without its guard: the search runs in every cycle
AutoRecalc_Always ==
    /\ pc = "auto" /\ ~panicked
    /\ \E order \in Orders(wires) :
         LET r == run_dijkstra(kind, costs, wires, total_cost, order, overflow_checks)
         IN  /\ result' = Append(result, r)
             /\ total_cost' = r.total
             /\ panicked' = (r.tag = "Panic")
             /\ path_nodes' = IF r.tag = "Ok" THEN r.path ELSE <<>>
             /\ trace' = Append(trace, Step("auto_run", 0, 0))
             /\ pc' = IF r.tag = "Hang" THEN "hang" ELSE "end"
    /\ UNCHANGED <<kind, costs, wires, stored_nodes, auto_recalc, toasts, todo,
                   overflow_checks>>
    /\ UNCHANGED <<vacant, frame>>

\* the block reporting its outcome the way the Run button does
AutoRecalc_Notifies ==
    /\ pc = "auto" /\ ~panicked
    /\ IF auto_recalc
       THEN \E order \in Orders(wires) :
              LET r == run_dijkstra(kind, costs, wires, total_cost, order, overflow_checks)
              IN  /\ result' = Append(result, r)
                  /\ total_cost' = r.total
                  /\ panicked' = (r.tag = "Panic")
                  /\ path_nodes' = IF r.tag = "Ok" THEN r.path ELSE <<>>
                  /\ toasts' = IF r.tag = "Ok" THEN Append(toasts, Step("success", r.total, 0))
                               ELSE IF r.tag = "Err" THEN Append(toasts, Step("error", 0, 0))
                               ELSE toasts
                  /\ trace' = Append(trace, Step("auto_run", 0, 0))
                  /\ pc' = IF r.tag = "Hang" THEN "hang" ELSE "end"
       ELSE UNCHANGED <<result, total_cost, panicked, path_nodes, trace, toasts>> /\ pc' = "end"
    /\ UNCHANGED <<kind, costs, wires, stored_nodes, auto_recalc, todo,
                   overflow_checks>>
    /\ UNCHANGED <<vacant, frame>>

\* the auto_recalc block (main.rs:552-560), then update returns
AutoRecalc ==
    /\ pc = "auto" /\ ~panicked
    /\ IF auto_recalc
       THEN \E order \in Orders(wires) :
              LET r == run_dijkstra(kind, costs, wires, total_cost, order, overflow_checks)
              IN  /\ result' = Append(result, r)
                  /\ total_cost' = r.total
                  /\ panicked' = (r.tag = "Panic")
                  /\ path_nodes' = IF r.tag = "Ok" THEN r.path ELSE <<>>
                  /\ trace' = Append(trace, Step("auto_run", 0, 0))
                  /\ pc' = IF r.tag = "Hang" THEN "hang" ELSE "end"
       ELSE UNCHANGED <<result, total_cost, panicked, path_nodes, trace>> /\ pc' = "end"
    /\ UNCHANGED <<kind, costs, wires, stored_nodes, auto_recalc, toasts, todo,
                   overflow_checks>>
    /\ UNCHANGED <<vacant, frame>>

\* the next call of update
NextFrame ==
    /\ pc = "end" /\ ~panicked /\ frame < MaxCycles
    /\ frame' = frame + 1
    /\ pc' = "controls"
    /\ trace' = <<>>
    /\ result' = <<>>
    /\ toasts' = <<>>
    /\ UNCHANGED <<kind, costs, wires, stored_nodes, path_nodes, total_cost,
                   auto_recalc, todo, panicked, overflow_checks>>
    /\ UNCHANGED vacant

Next ==
    \/ NoClick
    \/ Save
    \/ Load
    \/ LoadMalformed
    \/ RemoveAll
    \/ ClearPath
    \/ RunButton
    \/ ToggleAuto
    \/ FinalNodeRect
    \/ RemoveNode
    \/ DropInputs
    \/ DropOutputs
    \/ InsertNode
    \/ Connect
    \/ Disconnect
    \/ EndShow
    \/ AutoRecalc
    \/ NextFrame

Spec == Init /\ [][Next]_vars

(***************************************************************************)
(* Path costs as mathematical integers, for stating the claims: a value is  *)
(* <<0, n>> (the number n <= i32::MAX), <<1, 0>> (a number above i32::MAX)  *)
(* or <<2, 0>> (no path).                                                   *)
(***************************************************************************)
Fin(n) == <<0, n>>
TooBig == <<1, 0>>
Unreached == <<2, 0>>

XAdd(a, b) ==
    IF a[1] = 2 \/ b[1] = 2 THEN Unreached
    ELSE IF a[1] = 1 \/ b[1] = 1 THEN TooBig
    ELSE IF a[2] > I32Max - b[2] THEN TooBig
    ELSE Fin(a[2] + b[2])

XLess(a, b) == a[1] < b[1] \/ (a[1] = b[1] /\ a[2] < b[2])

XMin(S) == CHOOSE x \in S : \A y \in S : ~XLess(y, x)

\* i rounds of relaxing every wire (Bellman-Ford)
RECURSIVE Relaxed(_, _, _, _, _)
Relaxed(d, k, c, w, i) ==
    IF i = 0 THEN d
    ELSE Relaxed([v \in NodeIds |->
                    XMin({d[v]} \cup {XAdd(d[p[1]], Fin(EdgeCost(k, c, p[1], v))) :
                                        p \in {q \in w : q[2] = v}})],
                 k, c, w, i - 1)

\* the least sum of edge costs over the directed paths from s to f
MinPathCost(k, c, w, s, f) ==
    Relaxed([v \in NodeIds |-> IF v = s THEN Fin(0) ELSE Unreached], k, c, w, MaxNodes)[f]

\* the sum of the edge costs along a node sequence
RECURSIVE PathCost(_, _, _)
PathCost(k, c, path) ==
    IF Len(path) <= 1 THEN Fin(0)
    ELSE XAdd(Fin(EdgeCost(k, c, path[1], path[2])), PathCost(k, c, Tail(path)))

StartNodes == {n \in NodeIds : kind[n] = "Start"}
FinishNodes == {n \in NodeIds : kind[n] = "Finish"}
TheStart == CHOOSE n \in StartNodes : TRUE
TheFinish == CHOOSE n \in FinishNodes : TRUE
Reachable == MinPathCost(kind, costs, wires, TheStart, TheFinish) # Unreached

\* a search has returned (or panicked); Last is what it returned
Searched == pc = "search" /\ Len(result) >= 1
Last == result[Len(result)]

\* C1: if the graph has a Start and a Finish and Finish is reachable from
\* Start, run_dijkstra returns Ok and total_cost is the least sum of edge
\* costs over the Start-to-Finish paths.
C1_MinimumCost ==
    (Searched /\ StartNodes # {} /\ FinishNodes # {} /\ Reachable)
        => /\ Last.tag = "Ok"
           /\ Fin(Last.total) = MinPathCost(kind, costs, wires, TheStart, TheFinish)

\* C2: an Ok path starts at Start, ends at Finish, follows wires, and
\* total_cost is the sum of the costs of its edges.
C2_PathWellFormed ==
    (Searched /\ Last.tag = "Ok")
        => /\ Len(Last.path) >= 1
           /\ Last.path[1] \in StartNodes
           /\ Last.path[Len(Last.path)] \in FinishNodes
           /\ \A i \in 1 .. (Len(Last.path) - 1) : <<Last.path[i], Last.path[i + 1]>> \in wires
           /\ Fin(Last.total) = PathCost(kind, costs, Last.path)

\* C3 as stated: no Start gives the missing-Start error and no Finish gives
\* the missing-Finish error.
C3_Original ==
    Searched =>
        /\ (StartNodes = {} => Last = Err("Start node not found", 1))
        /\ (FinishNodes = {} => Last = Err("Finish node not found", 1))

\* C3 amended: no Start gives the missing-Start error (whether or not there is
\* a Finish); a Start but no Finish gives the missing-Finish error; both are
\* Err values without a path and leave total_cost as it was.
C3_MissingEndpoint ==
    Searched =>
        /\ (StartNodes = {} => Last = Err("Start node not found", 1))
        /\ (StartNodes # {} /\ FinishNodes = {} => Last = Err("Finish node not found", 1))

C3_Witness ==
    /\ Searched
    /\ StartNodes = {} /\ FinishNodes = {} /\ wires # {}
    /\ Last.err = "Start node not found"

\* C4: with a Start and a Finish, the result is the "No path found" error
\* exactly when no directed path leads from Start to Finish, and it is never
\* Ok when there is none.
C4_UnreachableIff ==
    (Searched /\ StartNodes # {} /\ FinishNodes # {})
        => /\ (Last = Err("No path found", 1)) <=> ~Reachable
           /\ (Last.tag = "Ok" => Reachable)

\* C5: two consecutive run_dijkstra calls on the same graph return the same
\* result, whatever order the wire set is iterated in.
C5_Deterministic ==
    (pc = "search" /\ Len(result) = 2) => result[1] = result[2]

\* two equal-cost shortest paths: both Distance nodes lie between Start and Finish
C5_Witness ==
    /\ pc = "search" /\ Len(result) = 2
    /\ result[2].tag = "Ok"
    /\ StartNodes # {} /\ FinishNodes # {}
    /\ \E a, b \in NodeIds :
         /\ a # b
         /\ wires = {<<TheStart, a>>, <<TheStart, b>>, <<a, TheFinish>>, <<b, TheFinish>>}
    /\ \A n \in NodeIds : costs[n] = EmptyMap

(***************************************************************************)
(* Claims about the application (specification Spec).                       *)
(***************************************************************************)
\* the update cycle has just executed the step `op`
Did(op) == Len(trace') > Len(trace) /\ trace'[Len(trace')].op = op
LastStep == trace[Len(trace)]

\* C6: at most one Start node and at most one Finish node in every state the
\* editor reaches by insertion, removal, Remove all, connect and Load.
C6_OneStartOneFinish ==
    pc # "search" => (Cardinality(StartNodes) <= 1 /\ Cardinality(FinishNodes) <= 1)

NoWireIntoStartOrOutOfFinish ==
    \A p \in wires : kind[p[2]] # "Start" /\ kind[p[1]] # "Finish"

\* C7: connect(from, to) adds the wire exactly for the kind pairs
\* Start->Distance, Distance->Distance, Distance->Finish and otherwise changes
\* nothing and reports nothing; and no step other than Load makes a wire enter
\* a Start or leave a Finish.
C7_ConnectLegalPairs ==
    [][ /\ Did("connect") =>
             LET from == trace'[Len(trace')].a
                 to == trace'[Len(trace')].b
             IN  /\ wires' = IF <<kind[from], kind[to]>> \in
                                    {<<"Start", "Distance">>, <<"Distance", "Distance">>,
                                     <<"Distance", "Finish">>}
                              THEN wires \cup {<<from, to>>}
                              ELSE wires
                 /\ UNCHANGED <<kind, costs, stored_nodes, path_nodes, total_cost,
                                toasts, panicked>>
        /\ (NoWireIntoStartOrOutOfFinish /\ ~Did("load")) => NoWireIntoStartOrOutOfFinish'
      ]_vars

\* a connect from the Start node to the Distance node has added the only wire
\* of a graph built by inserting the two nodes: the slab has no vacant slot (a
\* loaded snapshot of two nodes has one) and no cost is recorded for the wire
C7_Witness ==
    /\ pc = "auto" /\ trace # <<>> /\ LastStep.op = "connect"
    /\ kind[LastStep.a] = "Start" /\ kind[LastStep.b] = "Distance"
    /\ wires = {<<LastStep.a, LastStep.b>>}
    /\ Cardinality(Present(kind)) = 2 /\ vacant = <<>>
    /\ costs[LastStep.b] = EmptyMap

\* C8: no operation of the user on the graph reaches a panic: every keyed
\* lookup of final_node_rect and run_dijkstra refers to an existing key.  (The
\* panic of Save and Load in a process whose working directory is gone is not
\* one of a keyed lookup; it leaves pc at a button of the controls.)
C8_NoPanic == pc \notin {"search"} \cup UpTo("toggle") => ~panicked

Abs(x) == IF x < 0 THEN 0 - x ELSE x

\* the exact square of the distance between the left-center of node_rect and
\* the right-center of parent_node
ExactDist2(node_rect, parent_node) ==
    (node_rect.l - parent_node.r) * (node_rect.l - parent_node.r)
        + (node_rect.y - parent_node.y) * (node_rect.y - parent_node.y)

\* r is round(d), the integer nearest to the distance d between the centres
\* (halves away from zero)
IsRound(r, node_rect, parent_node) ==
    /\ r = 0 \/ (2 * r - 1) * (2 * r - 1) <= 4 * ExactDist2(node_rect, parent_node)
    /\ 4 * ExactDist2(node_rect, parent_node) < (2 * r + 1) * (2 * r + 1)

\* the integers round(d) can be: d is at least the longer leg and at most the
\* sum of the legs
RoundRange(node_rect, parent_node) ==
    LET dx == Abs(node_rect.l - parent_node.r)
        dy == Abs(node_rect.y - parent_node.y)
    IN  (IF dx > dy THEN dx ELSE dy) .. (dx + dy + 1)

\* c is max(1, round(d) div 10)
IsClampedTenth(c, node_rect, parent_node) ==
    \E r \in RoundRange(node_rect, parent_node) :
        /\ IsRound(r, node_rect, parent_node)
        /\ c = (IF r \div 10 >= 1 THEN r \div 10 ELSE 1)

\* r is round(d) for the f32 d nearest to the square root of m: with s the
\* integer part of the square root and 1/H half a unit in the last place of an
\* f32 between s and s + 1 (H the power of two with 2^24 <= s*H < 2^25), d is
\* at least s + 1/2, and r is s + 1, exactly when the square root is above
\* s + 1/2 - 1/H, that is when ((2s+1)^2 - 4m) * H < 4 * (2s+1)
IsRoundSqrtF32(r, m) ==
    \E s \in {r - 1, r} :
        /\ s >= 0 /\ s * s <= m /\ m < (s + 1) * (s + 1)
        /\ r = s + 1 <=>
             /\ s > 0
             /\ \E k \in 0 .. 24 :
                  /\ (16777216 + s - 1) \div s <= 2 ^ k
                  /\ 2 ^ k <= 33554431 \div s
                  /\ ((2 * s + 1) * (2 * s + 1) - 4 * m) * (2 ^ k) < 4 * (2 * s + 1)

\* c is max(1, round(d) div 10) for the distance d as the code computes it in
\* f32: the square root of the f32 sum of the f32 squares of the two legs
IsClampedTenthF32(c, node_rect, parent_node) ==
    \E r \in 0 .. (Abs(node_rect.l - parent_node.r) + Abs(node_rect.y - parent_node.y) + 1) :
        /\ IsRoundSqrtF32(r, Dist2(node_rect, parent_node))
        /\ c = (IF r \div 10 >= 1 THEN r \div 10 ELSE 1)

SearchOps == {"run", "auto_run"}
EditOps == {"load", "remove_all"} \cup Gestures

\* C10: in every update cycle the path search runs after the user's edits and
\* the cost recomputation of that cycle, and at most once.
C10_SearchLastAndOnce ==
    pc # "search" =>
        /\ \A i, j \in 1 .. Len(trace) :
             (i < j /\ trace[i].op \in SearchOps) => trace[j].op \notin EditOps \cup {"recompute"}
        /\ Cardinality({i \in 1 .. Len(trace) : trace[i].op \in SearchOps}) <= 1

\* C11: a cost recomputation runs in a cycle only once every node of the graph
\* has reported its rectangle in that cycle (todo, the nodes still to report,
\* is empty): no pass reads a rectangle cached in an earlier cycle for one node
\* next to a fresh one for another.
C11_RecomputeAfterAllReported ==
    (pc = "graph" /\ ~panicked /\ trace # <<>> /\ LastStep.op = "recompute")
        => todo = {}

\* C12: while auto_recalc is on, a failing search of the auto_recalc block
\* (missing Start, missing Finish, no path) leaves viewer.path_nodes as it was:
\* the last successful path stays displayed.
C12_AutoFailureKeepsPath ==
    [][ ( /\ pc = "auto" /\ pc' = "end" /\ auto_recalc
          /\ Len(result') = Len(result) + 1
          /\ result'[Len(result')].tag = "Err" )
        => path_nodes' = path_nodes
      ]_vars

\* C13: while auto_recalc is off, viewer.path_nodes changes only in a step of
\* Run, Clear Dijkstra Path or Remove all, total_cost changes only in a step
\* of Run, and a path search runs only in a step of Run: insertion, removal of
\* one node, connect, the removal of wires, Load and cost recomputation leave
\* the stored result as it was.
C13_ManualModeFrame ==
    [][ ~auto_recalc =>
          /\ path_nodes' # path_nodes => (Did("run") \/ Did("clear") \/ Did("remove_all"))
          /\ total_cost' # total_cost => Did("run")
          /\ Len(result') > Len(result) => Did("run")
          /\ (Did("insert") \/ Did("remove") \/ Did("connect") \/ Did("disconnect")
                \/ Did("drop_inputs") \/ Did("drop_outputs") \/ Did("load")
                \/ Did("recompute"))
               => (path_nodes' = path_nodes /\ total_cost' = total_cost)
      ]_vars

\* auto_recalc is off, a path found by Run is stored, and a node on it has
\* just been removed: the stale path is still the stored result
C13_Witness ==
    /\ ~auto_recalc /\ pc = "graph"
    /\ trace # <<>> /\ LastStep.op = "remove"
    /\ path_nodes # <<>>
    /\ \E i \in 1 .. Len(path_nodes) : path_nodes[i] = LastStep.a

\* C14: a final_node_rect call leaves the set of nodes, the kind of every node
\* and the wires as they were and changes cost maps of Distance and Finish
\* nodes only; a run_dijkstra call leaves the whole graph (nodes, kinds, cost
\* maps, wires) as it was.
C14_GraphStructureKept ==
    [][ /\ (pc = "graph" /\ todo' # todo /\ ~Did("remove"))
             => /\ Present(kind') = Present(kind)
                /\ kind' = kind
                /\ wires' = wires
                /\ vacant' = vacant
                /\ \A v \in NodeIds :
                     costs'[v] # costs[v] => kind[v] \in {"Distance", "Finish"}
        /\ Len(result') > Len(result)
             => /\ kind' = kind
                /\ costs' = costs
                /\ wires' = wires
                /\ vacant' = vacant
      ]_vars

\* a cycle in which a recomputation pass gave the Finish node a cost map and
\* the search of the auto_recalc block then found a path
C14_Witness ==
    /\ pc = "end"
    /\ \E i, j \in 1 .. Len(trace) :
         i < j /\ trace[i].op = "recompute" /\ trace[j].op = "auto_run"
    /\ result # <<>> /\ Last.tag = "Ok"
    /\ \E v \in FinishNodes : costs[v] # EmptyMap

\* C15: right after a Load whose file cannot be read or deserialized, the
\* graph is empty (no nodes, no wires), an error notification has been
\* emitted, the application has not panicked, and the state the later layout
\* reports and recomputations work from is that of a freshly created
\* application: the rectangle cache is empty.
C15_MalformedLoadLikeFresh ==
    (pc = "graph" /\ trace # <<>> /\ LastStep.op = "load" /\ Present(kind) = {})
        => /\ wires = {}
           /\ \E i \in 1 .. Len(toasts) : toasts[i].op = "error"
           /\ ~panicked
           /\ stored_nodes = EmptyMap

(***************************************************************************)
(* Claims about the four-node scenario (specification SpecScenario).  The   *)
(* nodes the scenario calls 1, 2, 3, 4 are here N(1), N(2), N(3), N(4): the *)
(* Start node and the three keys after it.                                  *)
(***************************************************************************)
N(i) == TheStart + (i - 1)

\* entering node 2 costs 3, entering node 3 costs 2, the direct edge 2 -> 4
\* has recorded cost 10, the edge 3 -> 4 has no recorded cost
ScenarioCase ==
    /\ costs[N(2)] = MapOf(N(1), 3)
    /\ costs[N(3)] = MapOf(N(2), 2)
    /\ costs[N(4)] = MapOf(N(2), 10)

\* C16 as stated: on the scenario run_dijkstra returns the path through all
\* four nodes and records total cost 4.
C16_Original ==
    (Searched /\ ScenarioCase) => Last = Ok(<<N(1), N(2), N(3), N(4)>>, 4)

\* C16 amended: on the scenario run_dijkstra returns the path through all four
\* nodes and records total cost 5 = 3 + 2 + 0; and for every choice of the
\* recorded costs the recorded total is the cost of entering the first
\* Distance node plus the cheaper of the two ways on to Finish, along a path
\* that has this cost.
C16_ScenarioPath ==
    Searched =>
        LET a == costs[N(2)][N(1)]
            via == costs[N(3)][N(2)]
                     + (IF N(3) \in DOMAIN costs[N(4)] THEN costs[N(4)][N(3)] ELSE 0)
            direct == costs[N(4)][N(2)]
        IN  /\ ScenarioCase => Last = Ok(<<N(1), N(2), N(3), N(4)>>, 5)
            /\ Last.tag = "Ok"
            /\ Last.total = a + (IF via < direct THEN via ELSE direct)
            /\ via < direct => Last.path = <<N(1), N(2), N(3), N(4)>>
            /\ direct < via => Last.path = <<N(1), N(2), N(4)>>
            /\ Last.path \in {<<N(1), N(2), N(3), N(4)>>, <<N(1), N(2), N(4)>>}

C16_Witness ==
    /\ Searched /\ ScenarioCase
    /\ Last.path = <<N(1), N(2), N(3), N(4)>>
    /\ Last.total = 5

(***************************************************************************)
(* Claims about run_dijkstra as a function (specification SpecDijkstra).    *)
(***************************************************************************)
\* the cost the claim gives the edge u -> v: the entry for u in v's map, else
\* 1 into a Distance node and 0 into a Finish node
ClaimedEdgeCost(u, v) ==
    IF u \in DOMAIN costs[v] THEN costs[v][u]
    ELSE IF kind[v] = "Distance" THEN 1
    ELSE 0

\* the sum of the claimed edge costs along a node sequence
RECURSIVE ClaimedPathCost(_)
ClaimedPathCost(path) ==
    IF Len(path) <= 1 THEN Fin(0)
    ELSE XAdd(Fin(ClaimedEdgeCost(path[1], path[2])), ClaimedPathCost(Tail(path)))

\* C17: the search charges the edge u -> v the entry for u in v's cost map
\* and, when v's map has no entry for u, 1 if v is a Distance node and 0 if v
\* is the Finish node: the total of a path found is the sum of these charges
\* (whenever that sum is an i32), and no path from Start to Finish has a
\* smaller such sum.
C17_DefaultEdgeCosts ==
    (Searched /\ Last.tag = "Ok" /\ ClaimedPathCost(Last.path)[1] = 0)
        => /\ Fin(Last.total) = ClaimedPathCost(Last.path)
           /\ \A d \in NodeIds :
                (<<TheStart, d>> \in wires /\ <<d, TheFinish>> \in wires)
                    => ~XLess(ClaimedPathCost(<<TheStart, d, TheFinish>>), Fin(Last.total))

\* a path Start -> Distance -> Finish found in a graph without any recorded
\* cost: 1 into the Distance node, 0 into Finish
C17_Witness ==
    /\ Searched /\ Last.tag = "Ok"
    /\ Len(Last.path) = 3
    /\ \A n \in NodeIds : costs[n] = EmptyMap
    /\ Last.total = 1

\* C18: on every graph whose recorded costs are all non-negative (cycles,
\* self-loops on Distance nodes and zero costs included) a run_dijkstra call
\* returns: it does not stay in one of its loops for ever.
C18_Terminates ==
    ( /\ result # <<>>
      /\ \A v \in NodeIds : \A u \in DOMAIN costs[v] : costs[v][u] >= 0 )
        => Last.tag # "Hang"

(***************************************************************************)
(* Claims about the application (specification Spec), continued.            *)
(***************************************************************************)
\* C19: while auto_recalc is on, every update cycle that reaches the end of
\* update runs the search of the auto_recalc block, after snarl.show has drawn
\* every node; that search emits no notification, whatever it returns; a
\* search emits a notification only when Run started it (the only other
\* notifications are the file errors of Save and Load), exactly one per click
\* whose search returns: an error for Err, and for Ok a success that carries
\* total_cost as that search has just left it with the path it has stored
\* (the sum of the path's edge costs whenever that sum is an i32).
C19_AutoSilentRunNotifies ==
    [][ /\ (pc = "auto" /\ pc' = "end" /\ auto_recalc)
             => (Did("auto_run") /\ todo = {} /\ Len(result') = Len(result) + 1)
        /\ Did("auto_run") => toasts' = toasts
        /\ (Did("run") /\ result'[Len(result')].tag \in {"Ok", "Err"})
             => /\ Len(toasts') = Len(toasts) + 1
                /\ SubSeq(toasts', 1, Len(toasts)) = toasts
                /\ result'[Len(result')].tag = "Err"
                     => toasts'[Len(toasts')] = Step("error", 0, 0)
                /\ result'[Len(result')].tag = "Ok"
                     => /\ toasts'[Len(toasts')] = Step("success", total_cost', 0)
                        /\ total_cost' = result'[Len(result')].total
                        /\ path_nodes' = result'[Len(result')].path
                        /\ PathCost(kind, costs, path_nodes')[1] = 0
                             => Fin(total_cost') = PathCost(kind, costs, path_nodes')
        /\ Len(toasts') > Len(toasts) => (Did("run") \/ Did("load") \/ Did("save"))
      ]_vars

\* a cycle with auto_recalc on in which Run was clicked: two searches found
\* the path, the only notification is the success of Run with the total cost
C19_Witness ==
    /\ pc = "end" /\ auto_recalc
    /\ Len(trace) >= 2 /\ trace[1].op = "run" /\ LastStep.op = "auto_run"
    /\ Len(result) = 2 /\ result[1].tag = "Ok" /\ result[2].tag = "Ok"
    /\ Len(path_nodes) = 3
    /\ toasts = <<Step("success", total_cost, 0)>>

\* C20: in every state the application reaches, the keys of the rectangle
\* cache viewer.stored_nodes are ids of nodes of the graph.
C20_CacheKeysAreNodes ==
    pc # "search" => DOMAIN stored_nodes \subseteq Present(kind)

\* every node of the graph has reported its rectangle in this cycle, and the
\* cycle removed no node
AllReported ==
    /\ pc = "graph" /\ todo = {} /\ ~panicked
    /\ Present(kind) # {}
    /\ \A i \in 1 .. Len(trace) : trace[i].op # "remove"

\* C21: after any edits, once every node of the graph reports its rectangle
\* in each cycle, a recomputation pass runs, and after it every Distance or
\* Finish node with an inbound wire holds a cost map whose keys are exactly
\* its predecessors.  Reports only add keys of nodes of the graph to the
\* cache, so a guard (stored_nodes.len() == number of nodes) that does not
\* hold when all nodes have reported in a cycle never holds in a later one:
\* the pass runs eventually exactly if it has run by the end of such a cycle.
C21_RecomputeOnceAllReport ==
    AllReported =>
        /\ \E i \in 1 .. Len(trace) : trace[i].op = "recompute"
        /\ \A v \in Present(kind) :
             (kind[v] \in {"Distance", "Finish"} /\ \E u \in NodeIds : <<u, v>> \in wires)
                 => DOMAIN costs[v] = {u \in NodeIds : <<u, v>> \in wires}

====
